---- MODULE Spec2Model ----
(***************************************************************************)
(* A model of the PDF outline extractor: DocumentProcessor                 *)
(* (src/src/document_processor.py) and the batch driver main()             *)
(* (src/main.py).                                                          *)
(*                                                                         *)
(* Conventions.                                                            *)
(*  - A text is a sequence of one-character strings, so that strip(),      *)
(*    split(), join and the regular expressions are computed on the        *)
(*    characters.                                                          *)
(*  - A bbox is <<x0, y0, x1, y1>>.  Coordinates are integers (page units);*)
(*    the float thresholds of the code are compared exactly by scaling     *)
(*    (gap < size * 0.8 is 10 * gap < 8 * size).                           *)
(*  - A raw span size is a float in the code; it is kept here in           *)
(*    half-points (size2 = 2 * size) and Round is Python's round().        *)
(*  - Python sequences are 0-based, TLA+ sequences 1-based: the loop       *)
(*    variable i of the code is i - 1 here.                                *)
(***************************************************************************)
EXTENDS Integers, Sequences, FiniteSets, TLC

VARIABLES
    pc,                 \* position in process() / in the function running
    doc,                \* DocumentProcessor.doc: [metadata, pages]
    title,              \* process: title
    all_lines,          \* _extract_all_lines: all_lines; then process: all_lines
    page_num,           \* _extract_all_lines: page_num (0-based, as in the code)
    lines,              \* _recombine_lines: the parameter `lines`
    i,                  \* _recombine_lines: the index of next_line (1-based)
    current_line,       \* _recombine_lines: current_line
    recombined,         \* _recombine_lines: recombined (the return value)
    run_starts,         \* history: the index in lines of each run's first line
    pass,               \* which application of _recombine_lines is running
    first_result,       \* the value returned by the first application
    body_font_size,     \* process: body_font_size
    body_color,         \* process: body_color
    classified_headings,\* process: classified_headings
    outline,            \* process: outline
    listing,            \* main: os.listdir(INPUT_DIR), in the order it is iterated
    next_file,          \* main: position of the for loop in listing (1-based)
    outputs             \* main: the files of OUTPUT_DIR, name -> JSON object

recVars == <<lines, i, current_line, recombined, run_starts>>

passVars == <<pass, first_result>>

docVars == <<doc, title, all_lines, page_num>>

headVars == <<body_font_size, body_color, classified_headings, outline>>

mainVars == <<listing, next_file, outputs>>

vars == <<pc, docVars, recVars, passVars, headVars, mainVars>>

(***************************************************************************)
(* Helpers                                                                 *)
(***************************************************************************)
Min2(a, b) == IF a <= b THEN a ELSE b

Max2(a, b) == IF a >= b THEN a ELSE b

\* The value of current_line when no line is held.
NoLine == [none |-> TRUE]

\* The set of sequences over S of length at most n.
SeqsUpTo(S, n) == UNION {[1..k -> S] : k \in 0..n}

\* " ".join(texts)
RECURSIVE JoinWithSpace(_)
JoinWithSpace(texts) ==
    IF texts = <<>> THEN <<>>
    ELSE IF Len(texts) = 1 THEN texts[1]
    ELSE texts[1] \o <<" ">> \o JoinWithSpace(Tail(texts))

\* "".join(texts)
RECURSIVE Concat(_)
Concat(texts) ==
    IF texts = <<>> THEN <<>> ELSE texts[1] \o Concat(Tail(texts))

\* The concatenation of a sequence of sequences (nested for loops that append).
RECURSIVE Flatten(_)
Flatten(seqs) ==
    IF seqs = <<>> THEN <<>> ELSE seqs[1] \o Flatten(Tail(seqs))

\* [f(x) for x in s]
MapSeq(s, F(_)) == [k \in 1..Len(s) |-> F(s[k])]

\* [x for x in s if Keep(x)]
FilterSeq(s, Keep(_)) ==
    LET kept == {k \in 1..Len(s) : Keep(s[k])}
        Nth(n) == CHOOSE k \in kept : Cardinality({j \in kept : j <= k}) = n
    IN  [n \in 1..Cardinality(kept) |-> s[Nth(n)]]

UpperLetters ==
    <<"A", "B", "C", "D", "E", "F", "G", "H", "I", "J", "K", "L", "M",
      "N", "O", "P", "Q", "R", "S", "T", "U", "V", "W", "X", "Y", "Z">>

LowerLetters ==
    <<"a", "b", "c", "d", "e", "f", "g", "h", "i", "j", "k", "l", "m",
      "n", "o", "p", "q", "r", "s", "t", "u", "v", "w", "x", "y", "z">>

Digits == {"0", "1", "2", "3", "4", "5", "6", "7", "8", "9"}

IsUpperChar(c) == \E k \in 1..Len(UpperLetters) : UpperLetters[k] = c

IsLowerChar(c) == \E k \in 1..Len(LowerLetters) : LowerLetters[k] = c

IsDigit(c) == c \in Digits

\* \s, and the characters strip() and split() treat as blank.
IsSpace(c) == c = " "

\* str.lower(), one character
LowerChar(c) ==
    IF IsUpperChar(c)
    THEN LowerLetters[CHOOSE k \in 1..Len(UpperLetters) : UpperLetters[k] = c]
    ELSE c

\* str.lower()
Lower(t) == [k \in 1..Len(t) |-> LowerChar(t[k])]

\* str.lstrip()
RECURSIVE LStrip(_)
LStrip(t) ==
    IF t = <<>> THEN <<>>
    ELSE IF IsSpace(t[1]) THEN LStrip(Tail(t)) ELSE t

\* str.rstrip()
RECURSIVE RStrip(_)
RStrip(t) ==
    IF t = <<>> THEN <<>>
    ELSE IF IsSpace(t[Len(t)]) THEN RStrip(SubSeq(t, 1, Len(t) - 1)) ELSE t

\* str.strip()
Strip(t) == RStrip(LStrip(t))

\* str.startswith(prefix)
StartsWith(t, prefix) ==
    Len(t) >= Len(prefix) /\ SubSeq(t, 1, Len(prefix)) = prefix

\* sub in t
Contains(t, sub) ==
    \E k \in 1..(Len(t) - Len(sub) + 1) : SubSeq(t, k, k + Len(sub) - 1) = sub

\* len(text.split()): the number of maximal runs of non-blank characters.
WordCount(t) ==
    Cardinality({k \in 1..Len(t) :
        ~IsSpace(t[k]) /\ (k = 1 \/ IsSpace(t[k - 1]))})

\* Python's round() of a value given in half-points: to the nearest integer,
\* a tie (an odd number of half-points) to the even neighbour.
Round(size2) ==
    IF size2 % 2 = 0 THEN size2 \div 2
    ELSE LET lo == (size2 - 1) \div 2
         IN  IF lo % 2 = 0 THEN lo ELSE lo + 1

\* Counter(values).most_common(1)[0][0]: the most frequent value, the first
\* encountered among those that tie.
MostCommon(values) ==
    LET Count(v) == Cardinality({k \in 1..Len(values) : values[k] = v})
        First(v) == CHOOSE k \in 1..Len(values) :
                        values[k] = v /\ \A j \in 1..(k - 1) : values[j] # v
        best == CHOOSE k \in 1..Len(values) :
                    /\ First(values[k]) = k
                    /\ \A j \in 1..Len(values) :
                          \/ Count(values[j]) < Count(values[k])
                          \/ /\ Count(values[j]) = Count(values[k])
                             /\ First(values[j]) >= k
    IN  values[best]

(***************************************************************************)
(* The document as PyMuPDF presents it                                     *)
(*   doc      = [metadata |-> [has_title, title], pages |-> seq]           *)
(*   page     = [height, width, blocks |-> seq]      (page.rect, "blocks") *)
(*   block    = [type, bbox, lines |-> seq]                                *)
(*   line     = [spans |-> seq]                                            *)
(*   span     = [text, size (half-points), font, flags, color, bbox]       *)
(***************************************************************************)
\* doc.metadata is None or has no 'title' entry.
NoTitle == [has_title |-> FALSE, title |-> <<>>]

\* doc.metadata['title'] is the text t.
MetaTitle(t) == [has_title |-> TRUE, title |-> t]

T_untitled == <<"u", "n", "t", "i", "t", "l", "e", "d">>

\* The fallback literal "Untitled Document".
UntitledDocument ==
    <<"U", "n", "t", "i", "t", "l", "e", "d", " ",
      "D", "o", "c", "u", "m", "e", "n", "t">>

(***************************************************************************)
(* _get_document_title                                                     *)
(***************************************************************************)
\* The bound of `len(title) > 5`.
MinTitleLength == 5

\* The metadata title is used: present, not empty, and after strip() longer
\* than 5 characters and not starting with 'untitled' in any case.
MetadataTitleQualifies(d) ==
    /\ d.metadata.has_title
    /\ d.metadata.title # <<>>
    /\ LET t == Strip(d.metadata.title)
       IN  /\ t # <<>>
           /\ Len(t) > MinTitleLength
           /\ ~StartsWith(Lower(t), T_untitled)

\* The blocks both loops visit: block['type'] == 0 and
\* block['bbox'][3] < page.rect.height / 2.
TopHalfBlocks(page) ==
    FilterSeq(page.blocks, LAMBDA b : b.type = 0 /\ 2 * b.bbox[4] < page.height)

\* First loop: largest_size, the largest span size (unrounded) in those
\* blocks, starting from 0.
RECURSIVE MaxSize(_, _)
MaxSize(spans, largest_size) ==
    IF spans = <<>> THEN largest_size
    ELSE MaxSize(Tail(spans),
                 IF spans[1].size > largest_size THEN spans[1].size
                 ELSE largest_size)

LargestSize(page) ==
    MaxSize(Flatten(MapSeq(TopHalfBlocks(page),
                LAMBDA b : Flatten(MapSeq(b.lines, LAMBDA l : l.spans)))), 0)

\* A second loop that compares the sizes as they are, without round().
TitleCandidates_ExactSize(page) ==
    LET largest_size == LargestSize(page)
        block_lines == Flatten(MapSeq(TopHalfBlocks(page), LAMBDA b : b.lines))
        matching == FilterSeq(block_lines, LAMBDA l :
                        /\ l.spans # <<>>
                        /\ l.spans[1].size = largest_size)
    IN  MapSeq(matching,
               LAMBDA l : Strip(Concat(MapSeq(l.spans, LAMBDA sp : sp.text))))

\* Second loop: title_candidates.
TitleCandidates(page) ==
    LET largest_size == LargestSize(page)
        block_lines == Flatten(MapSeq(TopHalfBlocks(page), LAMBDA b : b.lines))
        matching == FilterSeq(block_lines, LAMBDA l :
                        /\ l.spans # <<>>
                        /\ Round(l.spans[1].size) = Round(largest_size))
    IN  MapSeq(matching,
               LAMBDA l : Strip(Concat(MapSeq(l.spans, LAMBDA sp : sp.text))))

\* A resolver without the final `return "Untitled Document"`.
DocumentTitle_NoFallback(d) ==
    IF MetadataTitleQualifies(d) THEN Strip(d.metadata.title)
    ELSE IF Len(d.pages) > 0
         THEN JoinWithSpace(TitleCandidates(d.pages[1]))
         ELSE <<>>

DocumentTitle(d) ==
    IF MetadataTitleQualifies(d) THEN Strip(d.metadata.title)
    ELSE IF Len(d.pages) > 0 /\ TitleCandidates(d.pages[1]) # <<>>
         THEN JoinWithSpace(TitleCandidates(d.pages[1]))
         ELSE UntitledDocument

\* process(), step 1; then the entry of _extract_all_lines (all_lines = []).
GetDocumentTitle ==
    /\ pc = "title"
    /\ title' = DocumentTitle(doc)
    /\ all_lines' = <<>>
    /\ page_num' = 0
    /\ pc' = "extract"
    /\ UNCHANGED <<doc, recVars, passVars, headVars, mainVars>>

(***************************************************************************)
(* _extract_all_lines                                                      *)
(***************************************************************************)
\* The dict appended to `spans` for one span of the page.
SpanDict(span, page_number) ==
    [text  |-> span.text,
     size  |-> Round(span.size),
     font  |-> Lower(span.font),
     flags |-> span.flags,
     color |-> span.color,
     bbox  |-> span.bbox,
     page  |-> page_number]

\* The spans of the page's text blocks, in block, line and span order.
PageSpans(page, page_number) ==
    LET text_blocks == FilterSeq(page.blocks, LAMBDA b : b.type = 0)
        raw == Flatten(MapSeq(text_blocks,
                   LAMBDA b : Flatten(MapSeq(b.lines, LAMBDA l : l.spans))))
    IN  MapSeq(raw, LAMBDA s : SpanDict(s, page_number))

\* The sort key (page, bbox[1], bbox[0]) compared lexicographically.
KeyLessEq(a, b) ==
    \/ a.page < b.page
    \/ /\ a.page = b.page
       /\ \/ a.bbox[2] < b.bbox[2]
          \/ a.bbox[2] = b.bbox[2] /\ a.bbox[1] <= b.bbox[1]

\* list.sort(key=...): a stable sort, here by insertion (x goes after every
\* element whose key is not greater).
RECURSIVE InsertSorted(_, _)
InsertSorted(sorted, x) ==
    IF sorted = <<>> THEN <<x>>
    ELSE IF KeyLessEq(sorted[1], x)
         THEN <<sorted[1]>> \o InsertSorted(Tail(sorted), x)
         ELSE <<x>> \o sorted

RECURSIVE SortSpans(_)
SortSpans(spans) ==
    IF spans = <<>> THEN <<>>
    ELSE InsertSorted(SortSpans(SubSeq(spans, 1, Len(spans) - 1)),
                      spans[Len(spans)])

\* The bound of `abs(...) < 2`.
VerticalAlignLimit == 2

\* The bound of `0 <= horizontal_gap < 10`.
HorizontalGapLimit == 10

Abs(x) == IF x < 0 THEN -x ELSE x

\* is_vertically_aligned
IsVerticallyAligned(last_span, current_span) ==
    Abs(current_span.bbox[2] - last_span.bbox[2]) < VerticalAlignLimit

\* is_horizontally_adjacent
SpanIsHorizontallyAdjacent(last_span, current_span) ==
    LET horizontal_gap == current_span.bbox[1] - last_span.bbox[3]
    IN  0 <= horizontal_gap /\ horizontal_gap < HorizontalGapLimit

\* The grouping loop: the closed groups followed by the open one
\* (current_line_spans), after the spans up to index n have been visited.
RECURSIVE GroupSpans(_, _)
GroupSpans(spans, n) ==
    IF n = 1 THEN <<<<spans[1]>>>>
    ELSE LET groups == GroupSpans(spans, n - 1)
             open == groups[Len(groups)]
             last_span == open[Len(open)]
             current_span == spans[n]
         IN  IF /\ IsVerticallyAligned(last_span, current_span)
                /\ SpanIsHorizontallyAdjacent(last_span, current_span)
             THEN [groups EXCEPT ![Len(groups)] = Append(open, current_span)]
             ELSE Append(groups, <<current_span>>)

\* min(... for s in current_line_spans) and max(...), as fitz.Rect then tuple.
RECURSIVE SpansBbox(_)
SpansBbox(group) ==
    IF Len(group) = 1 THEN group[1].bbox
    ELSE LET rest == SpansBbox(SubSeq(group, 1, Len(group) - 1))
             b == group[Len(group)].bbox
         IN  <<Min2(rest[1], b[1]), Min2(rest[2], b[2]),
               Max2(rest[3], b[3]), Max2(rest[4], b[4])>>

\* line_text
GroupText(group) == Strip(Concat(MapSeq(group, LAMBDA s : s.text)))

\* The dict appended to all_lines for a group whose line_text is not empty.
LineDict(group, page_height, page_width) ==
    LET first_span == group[1]
    IN  [text        |-> GroupText(group),
         size        |-> first_span.size,
         font        |-> first_span.font,
         flags       |-> first_span.flags,
         color       |-> first_span.color,
         bbox        |-> SpansBbox(group),
         page        |-> first_span.page,
         page_height |-> page_height,
         page_width  |-> page_width]

\* Variant: the group still open after the loop is never added.
FinalisedGroups_NoLastLine(spans) ==
    LET groups == GroupSpans(spans, Len(spans))
    IN  SubSeq(groups, 1, Len(groups) - 1)

\* The groups the loop finalises: every group closed inside the loop, and
\* the group still open after it ("Add the last line").
FinalisedGroups(spans) == GroupSpans(spans, Len(spans))

\* The lines one iteration of the page loop appends to all_lines.
PageLines(page, page_number) ==
    LET spans == SortSpans(PageSpans(page, page_number))
    IN  IF spans = <<>> THEN <<>>
        ELSE MapSeq(FilterSeq(FinalisedGroups(spans),
                              LAMBDA g : GroupText(g) # <<>>),
                    LAMBDA g : LineDict(g, page.height, page.width))

\* One iteration of `for page_num, page in enumerate(self.doc)`.
ExtractPage ==
    /\ pc = "extract"
    /\ page_num < Len(doc.pages)
    /\ all_lines' = all_lines \o PageLines(doc.pages[page_num + 1], page_num + 1)
    /\ page_num' = page_num + 1
    /\ UNCHANGED <<pc, doc, title, recVars, passVars, headVars, mainVars>>

\* `return all_lines`, and process() passing it to _recombine_lines.
ExtractReturn ==
    /\ pc = "extract"
    /\ page_num = Len(doc.pages)
    /\ lines' = all_lines
    /\ pc' = "recombine_entry"
    /\ UNCHANGED <<docVars, i, current_line, recombined, run_starts,
                   passVars, headVars, mainVars>>

(***************************************************************************)
(* _recombine_lines                                                        *)
(***************************************************************************)
\* next_line and current_line are on the same page and have the same style.
SameStyle(cur, nxt) ==
    /\ nxt.page = cur.page
    /\ nxt.size = cur.size
    /\ nxt.font = cur.font

\* 0 <= horizontal_gap < current_line['size'] * 0.8
IsHorizontallyAdjacent(cur, nxt) ==
    LET horizontal_gap == nxt.bbox[1] - cur.bbox[3]
    IN  0 <= horizontal_gap /\ 10 * horizontal_gap < 8 * cur.size

\* The bound of `0 <= vertical_gap < 5`.
VerticalGapLimit == 5

\* Variant: the gap measured from current_line's top (bbox[1]) instead of its
\* bottom (bbox[3]).
IsVerticallyAdjacent_FromTop(cur, nxt) ==
    LET vertical_gap == nxt.bbox[2] - cur.bbox[2]
    IN  0 <= vertical_gap /\ vertical_gap < VerticalGapLimit

\* 0 <= vertical_gap < 5
IsVerticallyAdjacent(cur, nxt) ==
    LET vertical_gap == nxt.bbox[2] - cur.bbox[4]
    IN  0 <= vertical_gap /\ vertical_gap < VerticalGapLimit

ShouldMerge(cur, nxt) ==
    /\ SameStyle(cur, nxt)
    /\ IsHorizontallyAdjacent(cur, nxt) \/ IsVerticallyAdjacent(cur, nxt)

\* Variant: the right edge taken from next_line instead of the larger one.
BboxUnion_RightOfNext(a, b) ==
    <<Min2(a[1], b[1]), Min2(a[2], b[2]), b[3], Max2(a[4], b[4])>>

\* The tuple of mins and maxes assigned to current_line['bbox'].
BboxUnion(a, b) ==
    <<Min2(a[1], b[1]), Min2(a[2], b[2]), Max2(a[3], b[3]), Max2(a[4], b[4])>>

\* Variant: the texts concatenated without the separating space.
MergeLines_NoSeparator(cur, nxt) ==
    [cur EXCEPT !.text = cur.text \o nxt.text,
                !.bbox = <<Min2(cur.bbox[1], nxt.bbox[1]),
                           Min2(cur.bbox[2], nxt.bbox[2]),
                           Max2(cur.bbox[3], nxt.bbox[3]),
                           Max2(cur.bbox[4], nxt.bbox[4])>>]

\* current_line after absorbing next_line: text += " " + text, bbox union;
\* every other key keeps current_line's value.
MergeLines(cur, nxt) ==
    [cur EXCEPT !.text = cur.text \o <<" ">> \o nxt.text,
                !.bbox = BboxUnion(cur.bbox, nxt.bbox)]

\* Function entry: the empty-input return, or the loop's initialisation.
\* The code's current_line aliases lines[0] and later lines[i], and a merge
\* mutates that element of the caller's list in place; the loop never reads
\* an element again after it became current_line, so the values it computes
\* are those of this value-based model.
RecombineEntry ==
    /\ pc = "recombine_entry"
    /\ IF lines = <<>>
       THEN /\ recombined' = <<>>
            /\ current_line' = NoLine
            /\ run_starts' = <<>>
            /\ i' = 0
            /\ pc' = "recombine_return"
       ELSE /\ recombined' = <<>>
            /\ current_line' = lines[1]
            /\ run_starts' = <<1>>
            /\ i' = 2
            /\ pc' = "recombine_loop"
    /\ UNCHANGED <<lines, passVars, docVars, headVars, mainVars>>

\* One iteration that takes the merge branch (ends in `continue`).
RecombineMerge ==
    /\ pc = "recombine_loop"
    /\ i <= Len(lines)
    /\ ShouldMerge(current_line, lines[i])
    /\ current_line' = MergeLines(current_line, lines[i])
    /\ i' = i + 1
    /\ UNCHANGED <<pc, lines, recombined, run_starts, passVars, docVars, headVars, mainVars>>

\* One iteration that closes current_line and opens the next run.
RecombineClose ==
    /\ pc = "recombine_loop"
    /\ i <= Len(lines)
    /\ ~ShouldMerge(current_line, lines[i])
    /\ recombined' = Append(recombined, current_line)
    /\ current_line' = lines[i]
    /\ run_starts' = Append(run_starts, i)
    /\ i' = i + 1
    /\ UNCHANGED <<pc, lines, passVars, docVars, headVars, mainVars>>

\* After the loop: recombined.append(current_line); return recombined.
RecombineFinish ==
    /\ pc = "recombine_loop"
    /\ i > Len(lines)
    /\ recombined' = Append(recombined, current_line)
    /\ pc' = "recombine_return"
    /\ UNCHANGED <<lines, i, current_line, run_starts, passVars, docVars, headVars, mainVars>>

\* _recombine_lines applied to its own result.
RecombineAgain ==
    /\ pc = "recombine_return"
    /\ pass = 1
    /\ first_result' = recombined
    /\ lines' = recombined
    /\ pass' = 2
    /\ pc' = "recombine_entry"
    /\ UNCHANGED <<i, current_line, recombined, run_starts, docVars, headVars, mainVars>>

(***************************************************************************)
(* HEURISTICS_CONFIG                                                       *)
(***************************************************************************)
header_margin_percent == 10

footer_margin_percent == 10

max_word_count == 20

min_word_count == 1

\* min_size_multiplier, in hundredths (1.15).
min_size_multiplier_x100 == 115

must_be_bold == TRUE

must_be_all_caps == TRUE

\* The style bit tested by `line['flags'] & 16`.
BoldBit == 16

T_arXiv == <<"a", "r", "X", "i", "v">>

(***************************************************************************)
(* _is_heading                                                             *)
(***************************************************************************)
\* re.search(r'\[[A-Z]+[0-9]{2,}\]', text)
MatchesCitation(t) ==
    \E a \in 1..Len(t), b \in 1..Len(t) :
        /\ a < b
        /\ t[a] = "["
        /\ t[b] = "]"
        /\ \E m \in (a + 1)..(b - 3) :
              /\ \A k \in (a + 1)..m : IsUpperChar(t[k])
              /\ \A k \in (m + 1)..(b - 1) : IsDigit(t[k])

\* re.match(r'^\d+(\.\d+)*\s|[A-Z]\s', text): at the start of the text,
\* either digit groups separated by single dots and then a blank, or one
\* upper-case letter and then a blank.
HasNumbering(t) ==
    \/ \E n \in 1..(Len(t) - 1) :
          /\ IsSpace(t[n + 1])
          /\ IsDigit(t[1])
          /\ IsDigit(t[n])
          /\ \A k \in 1..n : IsDigit(t[k]) \/ t[k] = "."
          /\ \A k \in 1..(n - 1) : ~(t[k] = "." /\ t[k + 1] = ".")
    \/ /\ Len(t) >= 2
       /\ IsUpperChar(t[1])
       /\ IsSpace(t[2])

\* str.isupper(): at least one cased character and no lower-case one.
IsUpper(t) ==
    /\ \E k \in 1..Len(t) : IsUpperChar(t[k])
    /\ \A k \in 1..Len(t) : ~IsLowerChar(t[k])

\* (line['flags'] & 16) != 0
FlagBold(flags) == (flags \div BoldBit) % 2 = 1

\* A rejection that looks at the header margin only.
InMargin_HeaderOnly(line) ==
    100 * line.bbox[2] < line.page_height * header_margin_percent

\* The header/footer rejection: bbox[1] < header_margin or
\* bbox[3] > page_height - footer_margin, the margins being page_height
\* times the percentage over 100.
InMargin(line) ==
    \/ 100 * line.bbox[2] < line.page_height * header_margin_percent
    \/ 100 * line.bbox[4] > line.page_height * (100 - footer_margin_percent)

\* The rejection filters, in the order of the code; any one returns False.
Rejected(line) ==
    LET text == line.text
        word_count == WordCount(text)
    IN  \/ Contains(text, T_arXiv)
        \/ InMargin(line)
        \/ MatchesCitation(text)
        \/ word_count > max_word_count
        \/ word_count < min_word_count /\ ~(text # <<>> /\ IsDigit(text[1]))

\* The positive heuristics; any one returns True.
PositiveSignal(line, body_size) ==
    LET is_large_enough == 100 * line.size > body_size * min_size_multiplier_x100
        is_bold == IF must_be_bold THEN FlagBold(line.flags) ELSE FALSE
        has_numbering == HasNumbering(line.text)
        is_all_caps == IF must_be_all_caps THEN IsUpper(line.text) ELSE FALSE
    IN  is_large_enough \/ is_bold \/ has_numbering \/ is_all_caps

IsHeading(line, body_size, color) ==
    IF Rejected(line) THEN FALSE ELSE PositiveSignal(line, body_size)

(***************************************************************************)
(* _classify_headings                                                      *)
(***************************************************************************)
ClassifiedHeadings(ls, body_size, color) ==
    FilterSeq(ls, LAMBDA line : IsHeading(line, body_size, color))

(***************************************************************************)
(* _determine_hierarchy                                                    *)
(***************************************************************************)
\* sorted(list(set(...)), reverse=True)
RECURSIVE SortedDescending(_)
SortedDescending(S) ==
    IF S = {} THEN <<>>
    ELSE LET m == CHOOSE x \in S : \A y \in S : y <= x
         IN  <<m>> \o SortedDescending(S \ {m})

\* The keys the code puts in size_to_level: at most the first three sizes.
MappedLevels == 3

LevelName(rank) == CASE rank = 1 -> "H1" [] rank = 2 -> "H2" [] OTHER -> "H3"

\* size_to_level.get(size): the level, or None.
NoLevel == "None"

\* A mapping that gives H3 to every size after the second.
SizeToLevel_CoerceH3(unique_sizes, size) ==
    IF \E r \in 1..Len(unique_sizes) : unique_sizes[r] = size
    THEN LevelName(CHOOSE r \in 1..Len(unique_sizes) : unique_sizes[r] = size)
    ELSE NoLevel

SizeToLevel(unique_sizes, size) ==
    IF \E r \in 1..Min2(Len(unique_sizes), MappedLevels) : unique_sizes[r] = size
    THEN LevelName(CHOOSE r \in 1..Min2(Len(unique_sizes), MappedLevels) :
                       unique_sizes[r] = size)
    ELSE NoLevel

\* A resolver that returns the H1 entries, then the H2, then the H3.
DetermineHierarchy_ByLevel(headings) ==
    IF headings = <<>> THEN <<>>
    ELSE LET unique_sizes ==
                 SortedDescending({headings[k].size : k \in 1..Len(headings)})
             entry(h) == [level |-> SizeToLevel(unique_sizes, h.size),
                          text  |-> h.text,
                          page  |-> h.page]
             of_level(l) ==
                 MapSeq(FilterSeq(headings,
                            LAMBDA h : SizeToLevel(unique_sizes, h.size) = l),
                        entry)
         IN  of_level("H1") \o of_level("H2") \o of_level("H3")

DetermineHierarchy(headings) ==
    IF headings = <<>> THEN <<>>
    ELSE LET unique_sizes ==
                 SortedDescending({headings[k].size : k \in 1..Len(headings)})
             kept == FilterSeq(headings,
                         LAMBDA h : SizeToLevel(unique_sizes, h.size) # NoLevel)
         IN  MapSeq(kept, LAMBDA h :
                 [level |-> SizeToLevel(unique_sizes, h.size),
                  text  |-> h.text,
                  page  |-> h.page])

(***************************************************************************)
(* process                                                                 *)
(***************************************************************************)
\* The body size used when there is no line (12.0).
DefaultBodySize == 12

\* The body colour used when there is no line.
DefaultBodyColor == 0

\* process(), steps 3 (the assignment of the result) and 4.
AnalyzeStyles ==
    /\ pc = "recombine_return"
    /\ all_lines' = recombined
    /\ body_font_size' =
          IF recombined # <<>>
          THEN MostCommon(MapSeq(recombined, LAMBDA l : l.size))
          ELSE DefaultBodySize
    /\ body_color' =
          IF recombined # <<>>
          THEN MostCommon(MapSeq(recombined, LAMBDA l : l.color))
          ELSE DefaultBodyColor
    /\ pc' = "classify"
    /\ UNCHANGED <<doc, title, page_num, recVars, passVars,
                   classified_headings, outline, mainVars>>

\* process(), step 5.
ClassifyHeadings ==
    /\ pc = "classify"
    /\ classified_headings' =
          ClassifiedHeadings(all_lines, body_font_size, body_color)
    /\ pc' = "hierarchy"
    /\ UNCHANGED <<docVars, recVars, passVars, body_font_size, body_color,
                   outline, mainVars>>

\* process(), steps 6 and 7: outline, and the returned {title, outline}.
ResolveHierarchy ==
    /\ pc = "hierarchy"
    /\ outline' = DetermineHierarchy(classified_headings)
    /\ pc' = "done"
    /\ UNCHANGED <<docVars, recVars, passVars, body_font_size, body_color,
                   classified_headings, mainVars>>

(***************************************************************************)
(* main                                                                    *)
(*   a file of INPUT_DIR = [name |-> text, outcome |-> what opening and    *)
(*   processing it does]; an outcome is a returned result or an exception  *)
(*   raised by fitz.open or by a stage of process().                       *)
(***************************************************************************)
T_dot_pdf == <<".", "p", "d", "f">>

T_dot_json == <<".", "j", "s", "o", "n">>

T_failed == <<"F", "a", "i", "l", "e", "d", " ", "t", "o", " ",
              "p", "r", "o", "c", "e", "s", "s", " ">>

\* str.endswith(suffix)
EndsWith(t, suffix) ==
    /\ Len(t) >= Len(suffix)
    /\ SubSeq(t, Len(t) - Len(suffix) + 1, Len(t)) = suffix

\* filename.lower().endswith(".pdf")
IsPdf(filename) == EndsWith(Lower(filename), T_dot_pdf)

\* os.path.splitext(filename)[0]: the name up to its last dot, when that dot
\* follows a character that is not a dot; else the whole name.
SplitextRoot(filename) ==
    LET dots == {k \in 1..Len(filename) : filename[k] = "."}
    IN  IF dots = {} THEN filename
        ELSE LET last == CHOOSE k \in dots : \A j \in dots : j <= k
             IN  IF \E j \in 1..(last - 1) : filename[j] # "."
                 THEN SubSeq(filename, 1, last - 1)
                 ELSE filename

\* output_filename
OutputFilename(filename) == SplitextRoot(filename) \o T_dot_json

\* error_output
ErrorOutput(filename, message) ==
    [error |-> T_failed \o filename, details |-> message]

\* open(output_path, 'w') and json.dump: the file is created or replaced.
WriteOutput(files, name, object) ==
    [n \in (DOMAIN files) \cup {name} |-> IF n = name THEN object ELSE files[n]]

\* An iteration over a name that does not end in .pdf.
MainSkip ==
    /\ pc = "main_loop"
    /\ next_file <= Len(listing)
    /\ ~IsPdf(listing[next_file].name)
    /\ next_file' = next_file + 1
    /\ UNCHANGED <<pc, listing, outputs, docVars, recVars, passVars, headVars>>

\* An iteration whose try block runs to its end: the result is written.
MainProcess ==
    /\ pc = "main_loop"
    /\ next_file <= Len(listing)
    /\ IsPdf(listing[next_file].name)
    /\ listing[next_file].outcome.raises = "no"
    /\ outputs' = WriteOutput(outputs, OutputFilename(listing[next_file].name),
                              listing[next_file].outcome.result)
    /\ next_file' = next_file + 1
    /\ UNCHANGED <<pc, listing, docVars, recVars, passVars, headVars>>

\* An iteration in which fitz.open or process() raises: the except clause
\* writes the error object.
MainError ==
    /\ pc = "main_loop"
    /\ next_file <= Len(listing)
    /\ IsPdf(listing[next_file].name)
    /\ listing[next_file].outcome.raises # "no"
    /\ outputs' = WriteOutput(outputs, OutputFilename(listing[next_file].name),
                              ErrorOutput(listing[next_file].name,
                                          listing[next_file].outcome.message))
    /\ next_file' = next_file + 1
    /\ UNCHANGED <<pc, listing, docVars, recVars, passVars, headVars>>

\* The for loop is exhausted: main() returns.
MainReturn ==
    /\ pc = "main_loop"
    /\ next_file > Len(listing)
    /\ pc' = "main_done"
    /\ UNCHANGED <<mainVars, docVars, recVars, passVars, headVars>>

(***************************************************************************)
(* Inputs: the documents, line lists and directory listings the            *)
(* specifications start from.                                              *)
(***************************************************************************)
MaxLines == 3

MaxSpans == 3

MaxBoxSpans == 3

MaxProcSpans == 2

MaxTitleSpans == 2

MaxHeadingLines == 1

MaxHeadings == 4

MaxFiles == 3

\* Height and width of every page of the input documents.
PageHeight == 100

PageWidth == 100

\* Width and height of every span box of the input documents.
BoxSide == 10

SpanOf(text, size2, font, flags, color, bbox) ==
    [text |-> text, size |-> size2, font |-> font, flags |-> flags,
     color |-> color, bbox |-> bbox]

BoxAt(left, top) == <<left, top, left + BoxSide, top + BoxSide>>

\* The rectangle PyMuPDF reports for a block: the one enclosing its spans.
RECURSIVE EnclosingBbox(_)
EnclosingBbox(spans) ==
    IF Len(spans) = 1 THEN spans[1].bbox
    ELSE LET rest == EnclosingBbox(Tail(spans))
             b == spans[1].bbox
         IN  <<Min2(rest[1], b[1]), Min2(rest[2], b[2]),
               Max2(rest[3], b[3]), Max2(rest[4], b[4])>>

\* A text block from its lines, each line given as its sequence of spans.
BlockOf(span_lines) ==
    [type  |-> 0,
     bbox  |-> EnclosingBbox(Flatten(span_lines)),
     lines |-> MapSeq(span_lines, LAMBDA l : [spans |-> l])]

PageOf(blocks) == [height |-> PageHeight, width |-> PageWidth, blocks |-> blocks]

\* A page on which every span is a line and a block of its own.
PlainPage(spans) == PageOf(MapSeq(spans, LAMBDA sp : BlockOf(<<<<sp>>>>)))

\* The blocks of a page from its spans in reading order and, for each span,
\* whether it continues the line ("span"), opens a line of the same block
\* ("line") or opens a block ("block"); the first span opens a block.
RECURSIVE BuildBlocks(_, _, _)
BuildBlocks(spans, breaks, n) ==
    IF n = 0 THEN <<>>
    ELSE IF n = 1 THEN << << <<spans[1]>> >> >>
    ELSE LET prev == BuildBlocks(spans, breaks, n - 1)
             block == prev[Len(prev)]
             line == block[Len(block)]
         IN  CASE breaks[n] = "block" -> Append(prev, << <<spans[n]>> >>)
               [] breaks[n] = "line" ->
                    [prev EXCEPT ![Len(prev)] = Append(block, <<spans[n]>>)]
               [] OTHER ->
                    [prev EXCEPT ![Len(prev)] =
                        [block EXCEPT ![Len(block)] = Append(line, spans[n])]]

StructuredPage(spans, breaks) ==
    PageOf(MapSeq(BuildBlocks(spans, breaks, Len(spans)), BlockOf))

DocOf(metadata, pages) == [metadata |-> metadata, pages |-> pages]

T_Report == <<"R", "e", "p", "o", "r", "t">>

\* --- _recombine_lines on its own: lists of lines -------------------------
LineOf(text, size, font, flags, bbox, page) ==
    [text |-> text, size |-> size, font |-> font, flags |-> flags,
     color |-> 0, bbox |-> bbox, page |-> page,
     page_height |-> PageHeight, page_width |-> PageWidth]

RecombineStyles ==
    {[page |-> 1, size |-> 10, font |-> <<"t">>],
     [page |-> 2, size |-> 10, font |-> <<"t">>],
     [page |-> 1, size |-> 12, font |-> <<"t">>],
     [page |-> 1, size |-> 10, font |-> <<"h">>]}

RecombinePlaces ==
    {[text |-> <<"a">>, bbox |-> BoxAt(0, 0)],
     [text |-> <<"b">>, bbox |-> BoxAt(30, 0)],
     [text |-> <<"c">>, bbox |-> BoxAt(12, 12)]}

RecombineLines ==
    {LineOf(p.text, st.size, st.font, 0, p.bbox, st.page) :
        p \in RecombinePlaces, st \in RecombineStyles}

\* --- _extract_all_lines: documents of two pages ---------------------------
AssembleSpans ==
    {SpanOf(<<"a", " ">>, 20, <<"T">>, 0, 0, BoxAt(left, top)) :
        left \in {0, 12, 24}, top \in {0, 1, 2}}
    \cup {SpanOf(<<" ">>, 20, <<"T">>, 0, 0, BoxAt(left, 0)) : left \in {0, 12}}

\* The document whose first page holds the first k spans of s and whose
\* second page holds the others.
TwoPageDoc(s, k) ==
    DocOf(NoTitle, <<PlainPage(SubSeq(s, 1, k)),
                     PlainPage(SubSeq(s, k + 1, Len(s)))>>)

\* --- _extract_all_lines then _recombine_lines: documents of two pages ------
BoxSpans ==
    {SpanOf(<<"a">>, 20, <<"T">>, 0, 0, BoxAt(left, top)) :
        left \in {0, 12}, top \in {0, 2, 12}}

\* --- process: documents of zero, one or two pages -------------------------
ProcessSpans ==
    {SpanOf(text, size2, <<"T">>, 0, 0, BoxAt(0, top)) :
        text \in {<<"A", " ", "b">>, <<"a", "b">>},
        size2 \in {24, 36},
        top \in {20, 32, 60}}

\* The documents made of the spans s: no page, one page, or two pages with
\* the spans split at any place.
PageListsOf(s) ==
    {<<>>, <<PlainPage(s)>>}
    \cup {<<PlainPage(SubSeq(s, 1, k)), PlainPage(SubSeq(s, k + 1, Len(s)))>> :
             k \in 0..Len(s)}

ProcessMetadata == {NoTitle, MetaTitle(T_Report)}

\* --- _get_document_title: first pages with block and line structure -------
TitleSpans ==
    {SpanOf(text, size2, <<"T">>, 0, 0, BoxAt(0, top)) :
        text \in {<<"T">>, <<" ", "s">>},
        size2 \in {24, 47, 49},
        top \in {20, 60}}

Breaks == {"span", "line", "block"}

\* A page that is not the first: one large span in its upper half.
LaterPage == PlainPage(<<SpanOf(<<"L">>, 80, <<"T">>, 0, 0, BoxAt(0, 20))>>)

MetadataTitles ==
    {NoTitle} \cup
    {MetaTitle(t) : t \in
        {<<>>, T_Report,
         <<"P", "a", "p", "e", "r">>,
         <<" ", "P", "a", "p", "e", "r", " ">>,
         <<"U", "n", "t", "i", "t", "l", "e", "d", "1">>}}

\* The documents whose first page is p: p alone, or p and a later page.
TitlePageLists(p) == {<<p>>, <<p, LaterPage>>}

\* --- _classify_headings: lists of lines and a body size -------------------
RECURSIVE Words(_)
Words(n) == IF n = 0 THEN <<>> ELSE IF n = 1 THEN <<"w">>
            ELSE Words(n - 1) \o <<" ", "w">>

HeadingTexts ==
    {<<"a", "b">>,
     <<"A", "B">>,
     <<"1", ".", "2", " ", "a">>,
     <<"A", " ", "b">>,
     T_arXiv,
     <<"[", "A", "1", "2", "]">>,
     Words(max_word_count + 1)}

HeadingBoxes ==
    {<<0, 2, 10, 8>>, <<0, 9, 10, 19>>, <<0, 10, 10, 20>>,
     <<0, 80, 10, 90>>, <<0, 85, 10, 95>>}

HeadingLines ==
    {LineOf(text, size, <<"t">>, flags, bbox, 1) :
        text \in HeadingTexts, size \in {12, 30},
        flags \in {4, 20}, bbox \in HeadingBoxes}

BodySizes == {12, 30}

\* --- _determine_hierarchy: lists of classified headings -------------------
HierarchyLines ==
    {LineOf(text, size, <<"t">>, 0, BoxAt(0, 20), 1) :
        text \in {<<"h">>, <<"k">>}, size \in {10, 12, 14, 16, 18}}

\* --- main: directory listings ----------------------------------------------
FileNames ==
    {<<"a", ".", "p", "d", "f">>,
     <<"a", ".", "P", "D", "F">>,
     <<"b", ".", "p", "d", "f">>,
     <<"a", ".", "t", "x", "t">>}

\* What process() returns for a file that raises nothing.
Results ==
    {[title |-> UntitledDocument, outline |-> <<>>],
     [title |-> T_Report,
      outline |-> <<[level |-> "H1", text |-> <<"A", " ", "b">>, page |-> 1]>>]}

Outcomes ==
    {[raises |-> "no", result |-> r, message |-> <<>>] : r \in Results}
    \cup {[raises |-> "open", result |-> <<>>, message |-> <<"o">>],
          [raises |-> "process", result |-> <<>>, message |-> <<"s">>]}

Files == [name : FileNames, outcome : Outcomes]

\* The names of a directory are distinct.
DistinctNames(l) == \A a, b \in 1..Len(l) : a # b => l[a].name # l[b].name

(***************************************************************************)
(* Specifications                                                          *)
(***************************************************************************)
IdleDoc == DocOf(NoTitle, <<>>)

IdleRec ==
    /\ lines = <<>>
    /\ i = 0
    /\ current_line = NoLine
    /\ recombined = <<>>
    /\ run_starts = <<>>

IdlePass == pass = 1 /\ first_result = <<>>

IdleDocVars == title = <<>> /\ all_lines = <<>> /\ page_num = 0

IdleHead ==
    /\ body_font_size = DefaultBodySize
    /\ body_color = DefaultBodyColor
    /\ classified_headings = <<>>
    /\ outline = <<>>

IdleMain == listing = <<>> /\ next_file = 1 /\ outputs = <<>>

\* process() on a document.
Init ==
    /\ pc = "title"
    /\ \E m \in ProcessMetadata :
          \E s \in SeqsUpTo(ProcessSpans, MaxProcSpans) :
              \E pages \in PageListsOf(s) : doc = DocOf(m, pages)
    /\ IdleDocVars /\ IdleRec /\ IdlePass /\ IdleHead /\ IdleMain

Next ==
    \/ GetDocumentTitle
    \/ ExtractPage
    \/ ExtractReturn
    \/ RecombineEntry
    \/ RecombineMerge
    \/ RecombineClose
    \/ RecombineFinish
    \/ AnalyzeStyles
    \/ ClassifyHeadings
    \/ ResolveHierarchy

Spec == Init /\ [][Next]_vars

\* _extract_all_lines on a document.
InitExtract ==
    /\ pc = "extract"
    /\ \E s \in SeqsUpTo(AssembleSpans, MaxSpans) :
          \E k \in 0..Len(s) : doc = TwoPageDoc(s, k)
    /\ IdleDocVars /\ IdleRec /\ IdlePass /\ IdleHead /\ IdleMain

NextExtract ==
    \/ ExtractPage
    \/ ExtractReturn

SpecExtract == InitExtract /\ [][NextExtract]_vars

\* _extract_all_lines and _recombine_lines on a document.
InitAssemble ==
    /\ pc = "extract"
    /\ \E s \in SeqsUpTo(BoxSpans, MaxBoxSpans) :
          \E k \in 0..Len(s) : doc = TwoPageDoc(s, k)
    /\ IdleDocVars /\ IdleRec /\ IdlePass /\ IdleHead /\ IdleMain

NextAssemble ==
    \/ ExtractPage
    \/ ExtractReturn
    \/ RecombineEntry
    \/ RecombineMerge
    \/ RecombineClose
    \/ RecombineFinish

SpecAssemble == InitAssemble /\ [][NextAssemble]_vars

\* _recombine_lines on a list of lines, and then on its own result.
InitRecombine ==
    /\ pc = "recombine_entry"
    /\ lines \in SeqsUpTo(RecombineLines, MaxLines)
    /\ i = 0 /\ current_line = NoLine /\ recombined = <<>> /\ run_starts = <<>>
    /\ doc = IdleDoc /\ IdleDocVars /\ IdlePass /\ IdleHead /\ IdleMain

NextRecombine ==
    \/ RecombineEntry
    \/ RecombineMerge
    \/ RecombineClose
    \/ RecombineFinish
    \/ RecombineAgain

SpecRecombine == InitRecombine /\ [][NextRecombine]_vars

\* _get_document_title on a document.
InitTitle ==
    /\ pc = "title"
    /\ \E m \in MetadataTitles :
          \/ doc = DocOf(m, <<>>)
          \/ \E s \in SeqsUpTo(TitleSpans, MaxTitleSpans) :
                \E b \in [1..Len(s) -> Breaks] :
                    \E pages \in TitlePageLists(StructuredPage(s, b)) :
                        doc = DocOf(m, pages)
    /\ IdleDocVars /\ IdleRec /\ IdlePass /\ IdleHead /\ IdleMain

NextTitle == GetDocumentTitle

SpecTitle == InitTitle /\ [][NextTitle]_vars

\* _classify_headings and _determine_hierarchy on a list of lines.
InitHeading ==
    /\ pc = "classify"
    /\ all_lines \in SeqsUpTo(HeadingLines, MaxHeadingLines)
    /\ body_font_size \in BodySizes
    /\ body_color = DefaultBodyColor
    /\ classified_headings = <<>>
    /\ outline = <<>>
    /\ doc = IdleDoc /\ title = <<>> /\ page_num = 0
    /\ IdleRec /\ IdlePass /\ IdleMain

NextHeading ==
    \/ ClassifyHeadings
    \/ ResolveHierarchy

SpecHeading == InitHeading /\ [][NextHeading]_vars

\* _determine_hierarchy on a list of classified headings.
InitHierarchy ==
    /\ pc = "hierarchy"
    /\ classified_headings \in SeqsUpTo(HierarchyLines, MaxHeadings)
    /\ body_font_size = DefaultBodySize
    /\ body_color = DefaultBodyColor
    /\ outline = <<>>
    /\ doc = IdleDoc /\ IdleDocVars /\ IdleRec /\ IdlePass /\ IdleMain

NextHierarchy == ResolveHierarchy

SpecHierarchy == InitHierarchy /\ [][NextHierarchy]_vars

\* main() on a directory listing.
InitMain ==
    /\ pc = "main_loop"
    /\ listing \in SeqsUpTo(Files, MaxFiles)
    /\ DistinctNames(listing)
    /\ next_file = 1
    /\ outputs = <<>>
    /\ doc = IdleDoc /\ IdleDocVars /\ IdleRec /\ IdlePass /\ IdleHead

NextMain ==
    \/ MainSkip
    \/ MainProcess
    \/ MainError
    \/ MainReturn

SpecMain == InitMain /\ [][NextMain]_vars

(***************************************************************************)
(* Properties                                                              *)
(***************************************************************************)
\* The merge condition of the Line Recombiner as the specification states
\* it: same page, size and font, and a horizontal gap in [0, 0.8 * size) or
\* a vertical gap in [0, 5).
MergeCondition(a, b) ==
    /\ a.page = b.page /\ a.size = b.size /\ a.font = b.font
    /\ \/ b.bbox[1] - a.bbox[3] >= 0 /\ 5 * (b.bbox[1] - a.bbox[3]) < 4 * a.size
       \/ b.bbox[2] - a.bbox[4] >= 0 /\ b.bbox[2] - a.bbox[4] < 5

\* Two results agree in length, texts and bboxes.
SameLines(r1, r2) ==
    /\ Len(r1) = Len(r2)
    /\ \A k \in 1..Len(r1) : r1[k].text = r2[k].text /\ r1[k].bbox = r2[k].bbox

\* C1 (as stated): recombination is idempotent; the second application
\* returns what the first returned, and no adjacent pair of lines of a
\* result satisfies the merge condition.
C1_Idempotent ==
    pc = "recombine_return" =>
        /\ pass = 2 => SameLines(recombined, first_result)
        /\ \A k \in 1..(Len(recombined) - 1) :
              ~MergeCondition(recombined[k], recombined[k + 1])

\* C1 (amended): when a pass returns, no line of the result satisfies the
\* merge condition with the input line that opened the next run; it may
\* satisfy it with the next line of the result, whose bbox has grown by the
\* lines that run absorbed, so a second pass can merge again.
C1_NoMergeWithNextRunHead ==
    pc = "recombine_return" =>
        /\ Len(run_starts) = Len(recombined)
        /\ \A k \in 1..(Len(recombined) - 1) :
              ~MergeCondition(recombined[k], lines[run_starts[k + 1]])

\* A second pass that merged two lines the first pass had returned.
C1_Witness ==
    /\ pc = "recombine_return"
    /\ pass = 2
    /\ Len(recombined) < Len(first_result)

\* The input indices 1..n cut into contiguous runs that start at the
\* indices of `starts`: the run that starts at s.
RunFrom(starts, s, n) ==
    {j \in s..n : \A m \in (s + 1)..j : m \notin starts}

\* The texts of the lines with indices in `run`, in order.
RunTexts(ls, run) ==
    LET Nth(k) == CHOOSE j \in run : Cardinality({m \in run : m <= j}) = k
    IN  [k \in 1..Cardinality(run) |-> ls[Nth(k)].text]

\* `out` is `ls` cut into contiguous runs in order, each run joined with
\* single spaces and sharing page, size and font with its first line.
IsRunPartition(ls, out) ==
    \E starts \in SUBSET (1..Len(ls)) :
        /\ Len(ls) > 0 => 1 \in starts
        /\ Cardinality(starts) = Len(out)
        /\ \A s \in starts :
              LET k == Cardinality({m \in starts : m <= s})
                  run == RunFrom(starts, s, Len(ls))
              IN  /\ out[k].text = JoinWithSpace(RunTexts(ls, run))
                  /\ out[k].page = ls[s].page
                  /\ out[k].size = ls[s].size
                  /\ out[k].font = ls[s].font
                  /\ \A j \in run : /\ ls[j].page = ls[s].page
                                    /\ ls[j].size = ls[s].size
                                    /\ ls[j].font = ls[s].font

\* C10: the result of _recombine_lines is the input cut into contiguous
\* runs in the original order, each output text the single-space join of
\* its run, every line of a run sharing the first line's page, size and
\* font; it is never longer than the input and empty only for empty input.
C10_RunsConserveContent ==
    pc = "recombine_return" =>
        /\ IsRunPartition(lines, recombined)
        /\ Len(recombined) <= Len(lines)
        /\ (recombined = <<>>) <=> (lines = <<>>)

\* A pass that merged some lines and kept others apart.
C10_Witness ==
    /\ pc = "recombine_return"
    /\ pass = 1
    /\ Len(recombined) = 2
    /\ Len(lines) = 3

\* --- Line assembly -------------------------------------------------------
\* The adjacency predicate of the Line Assembler as the specification
\* states it, of a span against the span just before it.
Adjacent(prev, cur) ==
    /\ cur.bbox[2] - prev.bbox[2] < 2
    /\ prev.bbox[2] - cur.bbox[2] < 2
    /\ cur.bbox[1] - prev.bbox[3] >= 0
    /\ cur.bbox[1] - prev.bbox[3] < 10

\* The spans of page p in the order the assembler walks them.
SortedPage(p) == SortSpans(PageSpans(doc.pages[p], p))

\* sp is ordered by (top, left), and holds the spans of the page, those
\* with equal (top, left) in their order on the page.
IsSortedPage(sp, p) ==
    LET raw == PageSpans(doc.pages[p], p)
    IN  /\ Len(sp) = Len(raw)
        /\ \A k \in 1..(Len(sp) - 1) :
              \/ sp[k].bbox[2] < sp[k + 1].bbox[2]
              \/ /\ sp[k].bbox[2] = sp[k + 1].bbox[2]
                 /\ sp[k].bbox[1] <= sp[k + 1].bbox[1]
        /\ \A x \in {raw[k] : k \in 1..Len(raw)} \cup {sp[k] : k \in 1..Len(sp)} :
              LET SameKey(y) == y.bbox[2] = x.bbox[2] /\ y.bbox[1] = x.bbox[1]
              IN  FilterSeq(sp, SameKey) = FilterSeq(raw, SameKey)

\* The maximal runs of sp: a run starts at the first span and at every span
\* that is not adjacent to the span before it.
MaximalRunStarts(sp) ==
    {j \in 1..Len(sp) : j = 1 \/ ~Adjacent(sp[j - 1], sp[j])}

\* The runs of sp in order, each as its sequence of spans.
MaximalRuns(sp) ==
    LET starts == MaximalRunStarts(sp)
        Nth(k) == CHOOSE j \in starts : Cardinality({m \in starts : m <= j}) = k
        End(k) == IF k = Cardinality(starts) THEN Len(sp) ELSE Nth(k + 1) - 1
    IN  [k \in 1..Cardinality(starts) |-> SubSeq(sp, Nth(k), End(k))]

\* The runs that are emitted: those whose concatenated text does not trim
\* to empty.
EmittedRuns(sp) ==
    FilterSeq(MaximalRuns(sp),
              LAMBDA run : Strip(Concat(MapSeq(run, LAMBDA x : x.text))) # <<>>)

\* The emitted runs of pages 1..n, page ascending.
RECURSIVE EmittedRunsUpTo(_)
EmittedRunsUpTo(n) ==
    IF n = 0 THEN <<>>
    ELSE EmittedRunsUpTo(n - 1) \o EmittedRuns(SortedPage(n))

\* The pages _extract_all_lines has gone through.
PagesDone == IF pc = "extract" THEN page_num ELSE Len(doc.pages)

\* C9: each line emitted by _extract_all_lines is a maximal run of the
\* page's spans sorted by (top, left), adjacent span to span; the runs
\* whose text trims to empty are discarded and all others emitted, the last
\* run of each page included, page ascending and in the order of their
\* first spans.
C9_LinesAreMaximalRuns ==
    LET runs == EmittedRunsUpTo(PagesDone)
    IN  /\ \A p \in 1..PagesDone : IsSortedPage(SortedPage(p), p)
        /\ Len(all_lines) = Len(runs)
        /\ \A k \in 1..Len(runs) :
              /\ all_lines[k].text =
                    Strip(Concat(MapSeq(runs[k], LAMBDA x : x.text)))
              /\ all_lines[k].page = runs[k][1].page
              /\ all_lines[k].size = runs[k][1].size
              /\ all_lines[k].font = runs[k][1].font

\* A document with a line of two spans and a run that was discarded.
C9_Witness ==
    /\ pc = "recombine_entry"
    /\ \E k \in 1..Len(all_lines) : Len(EmittedRunsUpTo(PagesDone)[k]) >= 2
    /\ \E p \in 1..Len(doc.pages) :
          Len(EmittedRuns(SortedPage(p))) < Len(MaximalRuns(SortedPage(p)))

\* --- Bbox enclosure ------------------------------------------------------
\* Rectangle outer contains rectangle inner.
Encloses(outer, inner) ==
    /\ outer[1] <= inner[1]
    /\ outer[2] <= inner[2]
    /\ outer[3] >= inner[3]
    /\ outer[4] >= inner[4]

\* box is the smallest rectangle that contains the bbox of every member.
IsMinimalEnclosure(box, members) ==
    /\ \A k \in 1..Len(members) : Encloses(box, members[k].bbox)
    /\ \A side \in 1..4 : \E k \in 1..Len(members) : members[k].bbox[side] = box[side]

\* The lines run k of the recombination has absorbed so far.
AbsorbedLines(k) ==
    LET last == IF k < Len(run_starts) THEN run_starts[k + 1] - 1 ELSE i - 1
    IN  SubSeq(lines, run_starts[k], last)

\* Every assembled line's bbox is the minimal enclosure of its spans; every
\* closed line of the recombination, and the line being built, has the
\* minimal enclosure of the lines it absorbed.
BboxesEnclose ==
    /\ LET runs == EmittedRunsUpTo(PagesDone)
       IN  /\ Len(all_lines) = Len(runs)
           /\ \A k \in 1..Len(runs) : IsMinimalEnclosure(all_lines[k].bbox, runs[k])
    /\ pc \in {"recombine_loop", "recombine_return"} =>
          /\ \A k \in 1..Len(recombined) :
                IsMinimalEnclosure(recombined[k].bbox, AbsorbedLines(k))
          /\ pc = "recombine_loop" =>
                IsMinimalEnclosure(current_line.bbox,
                                   AbsorbedLines(Len(run_starts)))

\* While a run is being built, a step never shrinks current_line's bbox.
BboxNeverShrinks ==
    (pc = "recombine_loop" /\ pc' = "recombine_loop" /\ run_starts' = run_starts)
        => Encloses(current_line'.bbox, current_line.bbox)

\* C6: every line produced by assembly or by recombination has the minimal
\* bbox that contains the bbox of every span or line it absorbed, and during
\* a recombination pass a line's bbox never shrinks on any side.
C6_BboxEnclosure == []BboxesEnclose /\ [][BboxNeverShrinks]_vars

\* A line assembled from two spans that then absorbed another line.
C6_Witness ==
    /\ pc = "recombine_return"
    /\ \E k \in 1..Len(all_lines) : Len(EmittedRunsUpTo(PagesDone)[k]) >= 2
    /\ \E k \in 1..Len(recombined) :
          /\ Len(AbsorbedLines(k)) >= 2
          /\ \A j \in 1..Len(AbsorbedLines(k)) :
                recombined[k].bbox # AbsorbedLines(k)[j].bbox

\* --- Hierarchy levels ----------------------------------------------------
\* The rank of a size among the distinct sizes of hs: 1 for the largest.
SizeRank(hs, size) ==
    1 + Cardinality({x \in {hs[k].size : k \in 1..Len(hs)} : x > size})

LevelOfRank == <<"H1", "H2", "H3">>

\* The headings of hs whose size is one of the three largest distinct sizes.
RankedHeadings(hs) ==
    LET kept == {k \in 1..Len(hs) : SizeRank(hs, hs[k].size) <= Len(LevelOfRank)}
        Nth(n) == CHOOSE k \in kept : Cardinality({j \in kept : j < k}) = n - 1
    IN  [n \in 1..Cardinality(kept) |-> hs[Nth(n)]]

\* C2: _determine_hierarchy gives each heading the level of the rank of its
\* size among the distinct heading sizes, in the order of the headings;
\* every H1 entry is strictly larger than every H2 entry and every H2 entry
\* strictly larger than every H3 entry; a heading whose size is the
\* fourth-largest distinct size or smaller is not in the outline.
C2_LevelsByDescendingSize ==
    pc = "done" =>
        LET kept == RankedHeadings(classified_headings)
        IN  /\ Len(outline) = Len(kept)
            /\ \A k \in 1..Len(kept) :
                  /\ outline[k].text = kept[k].text
                  /\ outline[k].page = kept[k].page
                  /\ outline[k].level =
                        LevelOfRank[SizeRank(classified_headings, kept[k].size)]
            /\ \A j, k \in 1..Len(kept) :
                  (\/ outline[j].level = "H1" /\ outline[k].level \in {"H2", "H3"}
                   \/ outline[j].level = "H2" /\ outline[k].level = "H3")
                      => kept[j].size > kept[k].size
            /\ Len(classified_headings) - Len(outline) =
                  Cardinality({k \in 1..Len(classified_headings) :
                      SizeRank(classified_headings,
                               classified_headings[k].size) > Len(LevelOfRank)})

\* Headings of four distinct sizes: the three levels are in the outline and
\* the heading of the fourth size is not.
C2_Witness ==
    /\ pc = "done"
    /\ Cardinality({classified_headings[k].size :
                        k \in 1..Len(classified_headings)}) = 4
    /\ {outline[k].level : k \in 1..Len(outline)} = {"H1", "H2", "H3"}
    /\ Len(outline) = 3

\* --- Header and footer margins -------------------------------------------
\* The line's top is above 10% of the page height or its bottom is below 90%.
InHeaderOrFooter(line) ==
    \/ 10 * line.bbox[2] < line.page_height
    \/ 10 * line.bbox[4] > 9 * line.page_height

\* C3: a line whose top is above the header margin or whose bottom is below
\* the footer margin is never classified as a heading, whatever its size,
\* bold flag, numbering or capitals, and so is never in the outline.
C3_MarginLinesRejected ==
    /\ pc \in {"hierarchy", "done"} =>
          /\ \A k \in 1..Len(all_lines) :
                InHeaderOrFooter(all_lines[k]) =>
                    ~IsHeading(all_lines[k], body_font_size, body_color)
          /\ \A k \in 1..Len(classified_headings) :
                ~InHeaderOrFooter(classified_headings[k])
          /\ Len(classified_headings) <=
                Cardinality({k \in 1..Len(all_lines) :
                                ~InHeaderOrFooter(all_lines[k])})
    /\ pc = "done" =>
          /\ Len(outline) <= Len(classified_headings)
          /\ \A k \in 1..Len(outline) :
                \E j \in 1..Len(all_lines) :
                    /\ ~InHeaderOrFooter(all_lines[j])
                    /\ all_lines[j].text = outline[k].text
                    /\ all_lines[j].page = outline[k].page

\* A bold line in capitals, larger than the body text and in a margin: it is
\* no heading, and the same line below the header margin would be one.
C3_Witness ==
    /\ pc = "done"
    /\ outline = <<>>
    /\ \E k \in 1..Len(all_lines) :
          LET line == all_lines[k]
          IN  /\ InHeaderOrFooter(line)
              /\ 100 * line.size > 115 * body_font_size
              /\ line.flags = 20
              /\ line.text = <<"A", "B">>
              /\ IsHeading([line EXCEPT !.bbox = <<0, 10, 10, 20>>],
                           body_font_size, body_color)

\* --- Outline order ---------------------------------------------------------
\* Line a is not after line b in reading order: an earlier page, or the same
\* page and not lower.
NotAfter(a, b) ==
    \/ a.page < b.page
    \/ a.page = b.page /\ a.bbox[2] <= b.bbox[2]

\* out is, entry by entry and in order, a subsequence of ls.
IsSubsequenceOfLines(out, ls) ==
    \E f \in [1..Len(out) -> 1..Len(ls)] :
        /\ \A j, k \in 1..Len(out) : j < k => f[j] < f[k]
        /\ \A k \in 1..Len(out) :
              /\ out[k].text = ls[f[k]].text
              /\ out[k].page = ls[f[k]].page

\* C5: the outline returned by process() is in reading order: the recombined
\* lines are in page order and top to bottom within a page, the outline is
\* an order-preserving subsequence of them, and its page numbers never
\* decrease; it is not regrouped by level.
C5_OutlineInReadingOrder ==
    pc = "done" =>
        /\ \A j, k \in 1..Len(all_lines) :
              j < k => NotAfter(all_lines[j], all_lines[k])
        /\ IsSubsequenceOfLines(outline, all_lines)
        /\ \A j, k \in 1..Len(outline) : j < k => outline[j].page <= outline[k].page

\* A page whose spans come lower one first, and an outline whose H2 entry
\* comes before its H1 entry.
C5_Witness ==
    /\ pc = "done"
    /\ Len(doc.pages) = 1
    /\ Len(doc.pages[1].blocks) = 2
    /\ doc.pages[1].blocks[1].bbox[2] > doc.pages[1].blocks[2].bbox[2]
    /\ Len(outline) = 2
    /\ outline[1].level = "H2"
    /\ outline[2].level = "H1"

\* --- Empty content ---------------------------------------------------------
\* The metadata title is used: after trimming longer than 5 characters and
\* not beginning with 'untitled' in any case.
MetadataTitleIsUsed(d) ==
    /\ d.metadata.has_title
    /\ Len(Strip(d.metadata.title)) > 5
    /\ ~StartsWith(Lower(Strip(d.metadata.title)), T_untitled)

\* The spans of page p of the document, as <<block, line, span>> places.
SpanPlaces(d, p) ==
    LET blocks == d.pages[p].blocks
    IN  UNION {UNION {{<<b, l, sp>> : sp \in 1..Len(blocks[b].lines[l].spans)} :
                         l \in 1..Len(blocks[b].lines)} :
                  b \in 1..Len(blocks)}

SpanAt(d, p, place) ==
    d.pages[p].blocks[place[1]].lines[place[2]].spans[place[3]]

NoSpans(d) == \A p \in 1..Len(d.pages) : SpanPlaces(d, p) = {}

\* A span of the first page has its own bottom above the middle of the page.
SpanInUpperHalf(d) ==
    /\ Len(d.pages) > 0
    /\ \E place \in SpanPlaces(d, 1) :
          2 * SpanAt(d, 1, place).bbox[4] < d.pages[1].height

NoHeadingLine ==
    \A k \in 1..Len(all_lines) :
        ~IsHeading(all_lines[k], body_font_size, body_color)

\* For a document with no page, or no span, or no heading line, the outline
\* is empty and the title falls back.
EmptyContentResult ==
    pc = "done" =>
        /\ (Len(doc.pages) = 0 \/ NoSpans(doc)) => all_lines = <<>>
        /\ (Len(doc.pages) = 0 \/ NoSpans(doc) \/ NoHeadingLine) =>
              /\ outline = <<>>
              /\ (~MetadataTitleIsUsed(doc) /\ ~SpanInUpperHalf(doc)) =>
                    title = UntitledDocument

\* The stages of process() in the order it goes through them.
StageOrder ==
    <<"title", "extract", "recombine_entry", "recombine_loop",
      "recombine_return", "classify", "hierarchy", "done">>

StageOf(p) == CHOOSE n \in 1..Len(StageOrder) : StageOrder[n] = p

\* Before its return process() always has a step to take: no stage ends on
\* a missing page, line or value.
ProcessCanStep ==
    \/ pc \in {"title", "recombine_entry", "recombine_return", "classify",
                "hierarchy", "done"}
    \/ pc = "extract" /\ page_num <= Len(doc.pages)
    \/ pc = "recombine_loop" /\ current_line # NoLine /\ i \in 2..(Len(lines) + 1)

\* Every step goes to a later stage, or to the next page or line of a loop.
ProcessAdvances ==
    \/ StageOf(pc') > StageOf(pc)
    \/ pc' = pc /\ pc = "extract" /\ page_num' = page_num + 1
    \/ pc' = pc /\ pc = "recombine_loop" /\ i' = i + 1

\* C8: process() runs to its return on every document; for a document with
\* no page, or with no span, or with lines none of which is a heading, the
\* outline is the empty list; and when also the metadata title is not used
\* and no span is in the first page's upper half, the title is
\* "Untitled Document".
C8_EmptyContentIsNotAnError ==
    []EmptyContentResult /\ []ProcessCanStep /\ [][ProcessAdvances]_vars

\* A document without metadata title whose only text is body text in the
\* lower half of its first page.
C8_Witness ==
    /\ pc = "done"
    /\ ~doc.metadata.has_title
    /\ all_lines # <<>>
    /\ ~SpanInUpperHalf(doc)
    /\ outline = <<>>
    /\ title = UntitledDocument

\* --- Title fallback --------------------------------------------------------
\* The lines of page p of the document, as <<block, line>> places.
LinePlaces(d, p) == {<<place[1], place[2]>> : place \in SpanPlaces(d, p)}

LineAt(d, p, place) == d.pages[p].blocks[place[1]].lines[place[2]]

PlaceBefore(a, b) == a[1] < b[1] \/ (a[1] = b[1] /\ a[2] < b[2])

\* The places of S in page order.
RECURSIVE InPageOrder(_)
InPageOrder(S) ==
    IF S = {} THEN <<>>
    ELSE LET first == CHOOSE a \in S : \A b \in S \ {a} : PlaceBefore(a, b)
         IN  <<first>> \o InPageOrder(S \ {first})

LineText(line) == Strip(Concat([k \in 1..Len(line.spans) |-> line.spans[k].text]))

\* The single-space join of the texts of the lines at the places of S.
JoinedTitle(d, S) ==
    JoinWithSpace([k \in 1..Cardinality(S) |->
                      LineText(LineAt(d, 1, InPageOrder(S)[k]))])

LargestRounded(d, places) ==
    LET sizes == {Round(SpanAt(d, 1, place).size) : place \in places}
    IN  CHOOSE m \in sizes : \A x \in sizes : x <= m

\* The title of the claim: from the spans whose own bottom is above the
\* middle of the first page.
TitleFromUpperSpans(d) ==
    LET upper == {place \in SpanPlaces(d, 1) :
                     2 * SpanAt(d, 1, place).bbox[4] < d.pages[1].height}
        lines_of == {<<place[1], place[2]>> : place \in
                        {q \in upper : q[3] = 1 /\
                            Round(SpanAt(d, 1, q).size) = LargestRounded(d, upper)}}
    IN  JoinedTitle(d, lines_of)

\* C7 as stated: when the metadata title is not used, the title is taken
\* from the spans of the first page whose own bbox bottom is less than half
\* the page height: the single-space join of the texts of every line whose
\* first span has the maximum rounded size among them (read for the
\* documents in which that join is not empty).
C7_TitleFromUpperHalfSpans ==
    (/\ pc = "extract"
     /\ ~MetadataTitleIsUsed(doc)
     /\ SpanInUpperHalf(doc)
     /\ TitleFromUpperSpans(doc) # <<>>)
        => title = TitleFromUpperSpans(doc)

\* The title of the code: from the spans of the blocks whose bottom is above
\* the middle of the first page, and the fallback when no line matches.
TitleFromUpperBlocks(d) ==
    LET upper == {place \in SpanPlaces(d, 1) :
                     /\ d.pages[1].blocks[place[1]].type = 0
                     /\ 2 * d.pages[1].blocks[place[1]].bbox[4] < d.pages[1].height}
        lines_of == IF upper = {} THEN {}
                    ELSE {<<place[1], place[2]>> : place \in
                            {q \in upper : q[3] = 1 /\
                                Round(SpanAt(d, 1, q).size) = LargestRounded(d, upper)}}
    IN  IF lines_of = {} THEN UntitledDocument ELSE JoinedTitle(d, lines_of)

\* C7, amended: when the metadata title is not used, the title is taken from
\* the spans of the first page's text blocks whose bbox bottom is less than
\* half the page height: the single-space join of the trimmed texts of every
\* line of those blocks whose first span has the maximum rounded size among
\* those spans, and "Untitled Document" when there is no page or no such
\* line; when the metadata title is used, the title is that title trimmed.
C7_TitleFromUpperHalfBlocks ==
    pc = "extract" =>
        title = IF MetadataTitleIsUsed(doc) THEN Strip(doc.metadata.title)
                ELSE IF Len(doc.pages) = 0 THEN UntitledDocument
                ELSE TitleFromUpperBlocks(doc)

\* A metadata title that is too short and two upper-half lines of sizes 23.5
\* and 24.5, whose texts make the title.
C7_Witness ==
    /\ pc = "extract"
    /\ doc.metadata.has_title
    /\ ~MetadataTitleIsUsed(doc)
    /\ Len(doc.pages) > 0
    /\ Cardinality(LinePlaces(doc, 1)) = 2
    /\ {SpanAt(doc, 1, place).size : place \in SpanPlaces(doc, 1)} = {47, 49}
    /\ title = <<"T", " ", "s">>

\* --- Batch isolation -------------------------------------------------------
\* The listed files main() takes for PDF files.
PdfFiles == {k \in 1..Len(listing) : IsPdf(listing[k].name)}

\* The object main() is to write for file k.
ObjectOf(k) ==
    IF listing[k].outcome.raises = "no" THEN listing[k].outcome.result
    ELSE ErrorOutput(listing[k].name, listing[k].outcome.message)

\* C4: whatever files fail, main() processes every file and ends with
\* exactly one output per PDF file: the error object for a failing file and
\* the result for every other file; a failure never stops the files after it.
C4_OneOutputPerFile ==
    pc = "main_done" =>
        /\ next_file = Len(listing) + 1
        /\ Cardinality(DOMAIN outputs) = Cardinality(PdfFiles)
        /\ \A k \in PdfFiles :
              /\ OutputFilename(listing[k].name) \in DOMAIN outputs
              /\ outputs[OutputFilename(listing[k].name)] = ObjectOf(k)

\* What holds of every listing, with or without two names of one stem: after
\* each iteration the outputs are those of the PDF files listed so far, each
\* holding the object of the last of them that has its name; no failure
\* ends the loop.
OutputsFollowTheListing ==
    LET done == {k \in PdfFiles : k < next_file}
    IN  /\ pc = "main_loop" => next_file \in 1..(Len(listing) + 1)
        /\ pc = "main_done" => next_file = Len(listing) + 1
        /\ DOMAIN outputs = {OutputFilename(listing[k].name) : k \in done}
        /\ \A k \in done :
              (\A j \in done :
                  j > k => OutputFilename(listing[j].name) #
                              OutputFilename(listing[k].name))
                  => outputs[OutputFilename(listing[k].name)] = ObjectOf(k)

====
